---- MODULE Spec2Model ----
(***************************************************************************)
(* A model of twitter_image_downloader (src/src/main.rs): main runs        *)
(* get_urls (the timeline crawl), optionally writes the URL list, and then *)
(* runs download_urls (the bounded concurrent download).                   *)
(*                                                                         *)
(* Strings are sequences of one-character strings, so that the substring   *)
(* test of the media filter and the file-name extraction of the downloader *)
(* are computed, not assumed.  The timeline source (egg_mode), the HTTP    *)
(* client (reqwest) and the file system are the environment: every result  *)
(* they may give is a nondeterministic choice of the action that awaits    *)
(* it.                                                                     *)
(***************************************************************************)
EXTENDS Integers, Sequences, FiniteSets, TLC

\* ------------------------------------------------------------ bounds

\* The largest --max-images value tried (0 means unbounded).
MaxImageCount == 2
\* The largest --max-requests value tried.
MaxRequests == 2
\* The number of page fetches after which the timeline source has nothing
\* older to give: the last fetch returns an error or an absent min_id.
MaxFetches == 2
\* The longest URL list handed to download_urls on its own.
MaxUrls == 3

\* ------------------------------------------------------------ strings

\* str.contains(pat): pat occurs in s as a contiguous substring.
Contains(s, pat) ==
    \E i \in 1..(Len(s) - Len(pat) + 1) : SubSeq(s, i, i + Len(pat) - 1) = pat

\* The pattern of line 57.
VideoSegment == <<"/", "v", "i", "d", "e", "o", "/">>

\* The smallest index i >= from with s[i] \in chars, or Len(s) + 1.
FirstOf(s, chars, from) ==
    LET hits == {i \in from..Len(s) : s[i] \in chars}
    IN  IF hits = {} THEN Len(s) + 1
        ELSE CHOOSE i \in hits : \A j \in hits : i <= j

\* The largest index i with s[i] = c, or 0.
LastIndexOf(s, c) ==
    LET hits == {i \in 1..Len(s) : s[i] = c}
    IN  IF hits = {} THEN 0
        ELSE CHOOSE i \in hits : \A j \in hits : j <= i

\* The scheme and the "//" every URL of the model starts with ("s" stands
\* for "https").
SchemePrefix == <<"s", ":", "/", "/">>

\* Url::parse(url) succeeds: a scheme, "//" and a non-empty host.
ParseOk(url) ==
    /\ Len(url) > Len(SchemePrefix)
    /\ SubSeq(url, 1, Len(SchemePrefix)) = SchemePrefix
    /\ url[Len(SchemePrefix) + 1] \notin {"/", "?", "#"}

\* parsed_url.path(): from the first "/" after the host up to the query or
\* the fragment; "/" when the URL has no path.
UrlPath(url) ==
    LET start == FirstOf(url, {"/", "?", "#"}, Len(SchemePrefix) + 1)
        stop  == FirstOf(url, {"?", "#"}, Len(SchemePrefix) + 1)
    IN  IF start >= stop THEN <<"/">> ELSE SubSeq(url, start, stop - 1)

\* path.split("/").last(): what follows the last "/" (split always yields
\* at least one piece, so the None arm of line 134 is never taken).
LastSegment(path) == SubSeq(path, LastIndexOf(path, "/") + 1, Len(path))

\* The file name lines 122-125 derive from a URL that parses.
FileName(url) == LastSegment(UrlPath(url))

\* ------------------------------------------------------------ timeline data

\* Media URLs.  UrlA and UrlC name the same file; UrlBad does not parse;
\* UrlDir has an empty last path segment.
UrlA == <<"s", ":", "/", "/", "h", "/", "a">>
UrlB == <<"s", ":", "/", "/", "h", "/", "m", "/", "b">>
UrlC == <<"s", ":", "/", "/", "g", "/", "a", "?", "1">>
UrlBad == <<"h", "/", "a">>
UrlDir == <<"s", ":", "/", "/", "h", "/">>

\* expanded_url values: a photo page, a video page, and two near misses of
\* the "/video/" pattern.
ExpPhoto == <<"t", "/", "p", "h", "o", "t", "o", "/", "1">>
ExpVideo == <<"t", "/", "v", "i", "d", "e", "o", "/", "1">>
ExpVideos == <<"t", "/", "v", "i", "d", "e", "o", "s", "/", "1">>
ExpVideoEnd == <<"t", "/", "1", "/", "v", "i", "d", "e", "o">>

MediaEntity(type, expanded, url) ==
    [media_type |-> type, expanded_url |-> expanded, media_url |-> url]

\* tweet.entities.media is None, or Some(entries).
NoMedia == [some |-> FALSE, entries |-> <<>>]
SomeMedia(entries) == [some |-> TRUE, entries |-> entries]

PhotoA == MediaEntity("Photo", ExpPhoto, UrlA)
PhotoB == MediaEntity("Photo", ExpVideos, UrlB)
PhotoC == MediaEntity("Photo", ExpVideoEnd, UrlC)
Thumb == MediaEntity("Photo", ExpVideo, UrlB)
Video == MediaEntity("Video", ExpPhoto, UrlC)
Gif == MediaEntity("Gif", ExpVideo, UrlA)

\* The pages the timeline source may return.
PageEmpty == <<>>
PageScenario == <<SomeMedia(<<Thumb>>), SomeMedia(<<PhotoA>>), SomeMedia(<<Video>>)>>
PageMulti == <<SomeMedia(<<PhotoB, Gif, PhotoC>>), NoMedia, SomeMedia(<<>>)>>
Pages == {PageEmpty, PageScenario, PageMulti}

\* timeline.min_id: None, or Some(id).  The id the n-th page gives stands
\* for the id of its oldest tweet.
None == 0
MinIds(n) == {None, n}

\* What timeline.older(None).await may give on the n-th fetch.
OlderResults(n) ==
    {[ok |-> FALSE, min_id |-> None, feed |-> <<>>]}
    \cup {[ok |-> TRUE, min_id |-> m, feed |-> p] :
            m \in (IF n < MaxFetches THEN MinIds(n) ELSE {None}), p \in Pages}

\* ------------------------------------------------------------ state

VARIABLES
    max_image_count,   \* main: --max-images, parsed (line 256)
    max_requests,      \* main: --max-requests (line 283)
    output_urls,       \* main: TRUE when --output-url-list names a file
    pc,                \* where the main task stands
    timeline,          \* get_urls: timeline.min_id
    feed,              \* get_urls: the page being processed
    ti,                \* get_urls: position of `for tweet in &*feed`
    mi,                \* get_urls: position of `for entry in media`
    urls,              \* the Vec<String> get_urls builds and main hands on
    tweets_retrieved,  \* get_urls: the tweet counter
    spinner,           \* get_urls: the spinner's message
    fetched,           \* history: every result timeline.older has given
    requests,          \* history: the min_id of the timeline each older call was made on
    url_list,          \* the --output-url-list file: absent, or its bytes
    li,                \* main: position of `for url in urls.iter()`
    main_progress,     \* download_urls: the aggregate bar
    spinners,          \* download_urls: the per-slot spinners
    stage,             \* download_urls: where each task (by index) stands
    files,             \* the target directory: file name -> bytes
    gets,              \* history: reqwest::get calls made, per task
    writes,            \* history: write_all calls completed, per task
    failure            \* the step and the task whose expect panicked

crawlVars == <<timeline, feed, ti, mi, urls, tweets_retrieved, spinner, fetched,
               requests>>
inputVars == <<max_image_count, max_requests, output_urls>>
listVars == <<url_list, li>>
downloadVars == <<main_progress, spinners, stage, files, gets, writes, failure>>
mainVars == <<inputVars, listVars, downloadVars>>
vars == <<pc, crawlVars, mainVars>>

Absent == [exists |-> FALSE, content |-> <<>>]
NoBar == [length |-> 0, position |-> 0, finished |-> FALSE]
NoFailure == <<>>

\* The spinner text of lines 41-46 and 84-89 (the username is fixed).
Message(kind, tweets, images) == [kind |-> kind, tweets |-> tweets, images |-> images]

\* main up to line 269, and get_urls up to line 38.
Init ==
    /\ max_image_count \in 0..MaxImageCount
    /\ max_requests \in 0..MaxRequests
    /\ output_urls \in BOOLEAN
    /\ pc = "retrieval"
    /\ timeline = None
    /\ feed = <<>>
    /\ ti = 1
    /\ mi = 1
    /\ urls = <<>>
    /\ tweets_retrieved = 0
    /\ spinner = Message("new", 0, 0)
    /\ fetched = <<>>
    /\ requests = <<>>
    /\ url_list = Absent
    /\ li = 1
    /\ main_progress = NoBar
    /\ spinners = <<>>
    /\ stage = <<>>
    /\ files = <<>>
    /\ gets = <<>>
    /\ writes = <<>>
    /\ failure = NoFailure

\* ------------------------------------------------------------ get_urls

\* A variant of Eligible: the "/video/" test is left out.
EligibleByTypeOnly(entry) == entry.media_type = "Photo"

\* Lines 53-61: the entry is a photo and not a video thumbnail.
Eligible(entry) ==
    /\ entry.media_type = "Photo"
    /\ ~Contains(entry.expanded_url, VideoSegment)

\* A variant of LimitReached: the limit must be exceeded.
LimitReachedLate(count) == max_image_count > 0 /\ count > max_image_count

\* A variant of LimitReached: 0 is not taken to mean "no limit".
LimitReachedUnguarded(count) == count >= max_image_count

\* Line 65: the image limit is set and reached.
LimitReached(count) == max_image_count > 0 /\ count >= max_image_count

\* Lines 40-47: the head of 'retrieval: the message, then timeline.older
\* is called and awaited.
Retrieve ==
    /\ pc = "retrieval"
    /\ spinner' = Message("Retrieving", tweets_retrieved, Len(urls))
    /\ requests' = Append(requests, timeline)
    /\ pc' = "older"
    /\ UNCHANGED <<timeline, feed, ti, mi, urls, tweets_retrieved, fetched, mainVars>>

\* A variant of OlderOk: the timeline older gave is not kept.
OlderOkStale ==
    /\ pc = "older"
    /\ \E r \in OlderResults(Len(fetched) + 1) :
        /\ r.ok
        /\ timeline' = timeline
        /\ feed' = r.feed
        /\ fetched' = Append(fetched, r)
    /\ ti' = 1
    /\ mi' = 1
    /\ pc' = "feed"
    /\ UNCHANGED <<urls, tweets_retrieved, spinner, requests, mainVars>>

\* Lines 48-50: the fetch gave a page.
OlderOk ==
    /\ pc = "older"
    /\ \E r \in OlderResults(Len(fetched) + 1) :
        /\ r.ok
        /\ timeline' = r.min_id
        /\ feed' = r.feed
        /\ fetched' = Append(fetched, r)
    /\ ti' = 1
    /\ mi' = 1
    /\ pc' = "feed"
    /\ UNCHANGED <<urls, tweets_retrieved, spinner, requests, mainVars>>

\* A variant of OlderErr: the fetch is tried again.
OlderErrRetry ==
    /\ pc = "older"
    /\ \E r \in OlderResults(Len(fetched) + 1) :
        /\ ~r.ok
        /\ fetched' = Append(fetched, r)
    /\ pc' = IF Len(fetched) + 1 < MaxFetches THEN "retrieval" ELSE "finish"
    /\ UNCHANGED <<timeline, feed, ti, mi, urls, tweets_retrieved, spinner, requests, mainVars>>

\* Lines 78-80: the fetch failed; the loop is left.
OlderErr ==
    /\ pc = "older"
    /\ \E r \in OlderResults(Len(fetched) + 1) :
        /\ ~r.ok
        /\ fetched' = Append(fetched, r)
    /\ pc' = "finish"
    /\ UNCHANGED <<timeline, feed, ti, mi, urls, tweets_retrieved, spinner, requests, mainVars>>

\* The media entries line 52 iterates for a tweet (none when media is None).
Entries(tweet) == IF tweet.some THEN tweet.entries ELSE <<>>

\* A variant of Entry: on the limit only `for entry in media` is left.
EntryBreakInner ==
    /\ pc = "feed"
    /\ ti <= Len(feed)
    /\ mi <= Len(Entries(feed[ti]))
    /\ LET entry == Entries(feed[ti])[mi]
       IN  IF ~Eligible(entry)
           THEN /\ mi' = mi + 1
                /\ UNCHANGED <<pc, urls>>
           ELSE /\ urls' = Append(urls, entry.media_url)
                /\ pc' = pc
                /\ IF LimitReached(Len(urls'))
                   THEN mi' = Len(Entries(feed[ti])) + 1
                   ELSE mi' = mi + 1
    /\ UNCHANGED <<timeline, feed, ti, tweets_retrieved, spinner, fetched, requests, mainVars>>

\* Lines 52-68, one iteration of `for entry in media`: skip the entry, or
\* push its media_url and leave 'retrieval when the limit is reached.
Entry ==
    /\ pc = "feed"
    /\ ti <= Len(feed)
    /\ mi <= Len(Entries(feed[ti]))
    /\ LET entry == Entries(feed[ti])[mi]
       IN  IF ~Eligible(entry)
           THEN /\ mi' = mi + 1
                /\ UNCHANGED <<pc, urls>>
           ELSE /\ urls' = Append(urls, entry.media_url)
                /\ IF LimitReached(Len(urls'))
                   THEN pc' = "finish" /\ mi' = mi
                   ELSE pc' = pc /\ mi' = mi + 1
    /\ UNCHANGED <<timeline, feed, ti, tweets_retrieved, spinner, fetched, requests, mainVars>>

\* Line 70: the tweet's entries are through (or it has no media).
TweetDone ==
    /\ pc = "feed"
    /\ ti <= Len(feed)
    /\ mi > Len(Entries(feed[ti]))
    /\ tweets_retrieved' = tweets_retrieved + 1
    /\ ti' = ti + 1
    /\ mi' = 1
    /\ UNCHANGED <<pc, timeline, feed, urls, spinner, fetched, requests, mainVars>>

\* Lines 73-76: the page is through; leave the loop when min_id is None.
FeedDone ==
    /\ pc = "feed"
    /\ ti > Len(feed)
    /\ pc' = IF timeline = None THEN "finish" ELSE "retrieval"
    /\ UNCHANGED <<crawlVars, mainVars>>

\* Lines 84-91 and main line 269: the final message; urls is returned.
Finish ==
    /\ pc = "finish"
    /\ spinner' = Message("retrieved", tweets_retrieved, Len(urls))
    /\ pc' = "returned"
    /\ UNCHANGED <<timeline, feed, ti, mi, urls, tweets_retrieved, fetched, requests, mainVars>>

GetUrls == Retrieve \/ OlderOk \/ OlderErr \/ Entry \/ TweetDone \/ FeedDone \/ Finish

\* ------------------------------------------------------------ main, lines 269-281

\* A variant of Line: the newline is left out.
LineNoNewline(url) == url

\* format!("{}\n", url): the line written for a URL.
Line(url) == Append(url, "\n")

\* A variant of Panic: the failure is noted and the task carries on.
Swallow(step) ==
    /\ pc' = pc
    /\ failure' = step

\* expect on an Err (lines 117, 118, 123, 129, 132, 274, 278): the message
\* is kept and the main task unwinds; nothing of it runs again.
Panic(step) ==
    /\ pc' = "panicked"
    /\ failure' = step

\* A variant of Returned: no list file is made for an empty list.
ReturnedSkipEmpty ==
    /\ pc = "returned"
    /\ pc' = IF output_urls /\ urls # <<>> THEN "create_list" ELSE "setup"
    /\ UNCHANGED <<crawlVars, mainVars>>

\* Lines 269-274: get_urls has returned; with --output-url-list the file is
\* created, which is awaited.
Returned ==
    /\ pc = "returned"
    /\ pc' = IF output_urls THEN "create_list" ELSE "setup"
    /\ UNCHANGED <<crawlVars, mainVars>>

\* Lines 272-274: File::create gave the (truncated) file.
ListCreateOk ==
    /\ pc = "create_list"
    /\ url_list' = [exists |-> TRUE, content |-> <<>>]
    /\ li' = 1
    /\ pc' = "write_list"
    /\ UNCHANGED <<crawlVars, inputVars, downloadVars>>

ListCreateErr ==
    /\ pc = "create_list"
    /\ Panic(<<"Could not open file for writing">>)
    /\ UNCHANGED <<crawlVars, inputVars, listVars, main_progress, spinners, stage,
                   files, gets, writes>>

\* Lines 275-279, one iteration: the URL's line is appended.
ListWriteOk ==
    /\ pc = "write_list"
    /\ li <= Len(urls)
    /\ url_list' = [url_list EXCEPT !.content = @ \o Line(urls[li])]
    /\ li' = li + 1
    /\ UNCHANGED <<pc, crawlVars, inputVars, downloadVars>>

ListWriteErr ==
    /\ pc = "write_list"
    /\ li <= Len(urls)
    /\ Panic(<<"Could not write to file">>)
    /\ UNCHANGED <<crawlVars, inputVars, listVars, main_progress, spinners, stage,
                   files, gets, writes>>

\* Lines 279-281: the loop is through and the file is dropped.
ListDone ==
    /\ pc = "write_list"
    /\ li > Len(urls)
    /\ pc' = "setup"
    /\ UNCHANGED <<crawlVars, mainVars>>

WriteUrlList ==
    Returned \/ ListCreateOk \/ ListCreateErr \/ ListWriteOk \/ ListWriteErr \/ ListDone

\* ------------------------------------------------------------ download_urls

\* The task indices `enumerate` gives (from 0), once the stream is built.
Tasks == DOMAIN stage

\* What a GET of the URL gives (the bodies differ in length).
Body(url) ==
    CASE url = UrlA -> <<"a1", "a2">>
      [] url = UrlB -> <<"b1">>
      [] url = UrlC -> <<"c1">>
      [] OTHER -> <<"x1">>

\* write_all(bytes) through a fresh handle: the bytes go to offset 0 of what
\* the file holds.
Overlay(old, bytes) == bytes \o SubSeq(old, Len(bytes) + 1, Len(old))

\* The file `name` holding `content`, the other files as they are.
WithFile(dir, name, content) ==
    [n \in DOMAIN dir \cup {name} |-> IF n = name THEN content ELSE dir[n]]

\* A variant of Inc: the position is set to n, not advanced by it.
SetPosition(bar, n) == [bar EXCEPT !.position = n]

\* progress.inc(n).
Inc(bar, n) == [bar EXCEPT !.position = @ + n]

NoMessage == <<>>
Downloading(url) == <<"Downloading: ", url>>

\* A variant of SlotOf: every task takes the first spinner.
SlotOfFirst(index) == 1

\* A variant of SlotOf: the index is taken one too high.
SlotOfShifted(index) == ((index + 1) % max_requests) + 1

\* Line 110: the spinner of a task (spinners is indexed from 1 here).
SlotOf(index) == (index % max_requests) + 1

\* The tasks the stream has yielded, and those of them buffer_unordered
\* still holds.
Pulled == {i \in Tasks : stage[i] # "pending"}
InQueue == {i \in Tasks : stage[i] \notin {"pending", "done"}}

\* A variant of StreamNext: the list is walked from its end.
StreamNextReversed == Len(urls) - 1 - Cardinality(Pulled)

\* Line 109: the index `enumerate` gives the next URL.
StreamNext == Cardinality(Pulled)

\* A variant of QueueHasRoom: one future too many is admitted.
QueueHasRoomOffByOne == Cardinality(InQueue) <= max_requests

\* Line 139: buffer_unordered polls the stream while it holds fewer than
\* max_requests futures.
QueueHasRoom == Cardinality(InQueue) < max_requests

\* A variant of CanLaunch: one place of the queue is kept free.
CanLaunchTight == Cardinality(InQueue) + 1 < max_requests /\ StreamNext < Len(urls)

\* The stream is polled and has a URL left.
CanLaunch == QueueHasRoom /\ StreamNext < Len(urls)

\* main lines 283-289 and lines 95-140: max_requests is parsed; the bars,
\* the spinners and the stream are built; line 141 starts to await.
Setup ==
    /\ pc = "setup"
    /\ main_progress' = [length |-> Len(urls), position |-> 0, finished |-> FALSE]
    /\ spinners' = [k \in 1..max_requests |-> [message |-> NoMessage, cleared |-> FALSE]]
    /\ stage' = [i \in 0..(Len(urls) - 1) |-> "pending"]
    /\ gets' = [i \in 0..(Len(urls) - 1) |-> 0]
    /\ writes' = [i \in 0..(Len(urls) - 1) |-> 0]
    /\ pc' = "fetches"
    /\ UNCHANGED <<crawlVars, inputVars, listVars, files, failure>>

\* Lines 109-113: the stream yields the next task, which takes its spinner
\* (`index % 0` panics); buffer_unordered holds it.
Launch ==
    /\ pc = "fetches"
    /\ CanLaunch
    /\ IF max_requests = 0
       THEN /\ Panic(<<"attempt to calculate the remainder with a divisor of zero",
                       StreamNext>>)
            /\ UNCHANGED stage
       ELSE /\ stage' = [stage EXCEPT ![StreamNext] = "created"]
            /\ UNCHANGED <<pc, failure>>
    /\ UNCHANGED <<crawlVars, inputVars, listVars, main_progress, spinners,
                   files, gets, writes>>

\* buffer_unordered fills its queue before it polls a task, and polls the
\* tasks it was given in the order it was given them.
MayPoll(i) ==
    /\ pc = "fetches"
    /\ ~CanLaunch
    /\ i \in InQueue

\* Lines 114-116: the task's first poll: the message, then the GET.
Start(i) ==
    /\ MayPoll(i)
    /\ stage[i] = "created"
    /\ \A j \in Tasks : stage[j] = "created" => i <= j
    /\ spinners' = [spinners EXCEPT ![SlotOf(i)].message = Downloading(urls[i + 1])]
    /\ gets' = [gets EXCEPT ![i] = @ + 1]
    /\ stage' = [stage EXCEPT ![i] = "get"]
    /\ UNCHANGED <<pc, crawlVars, inputVars, listVars, main_progress, files, writes,
                   failure>>

\* An expect of task i panics with the message `step`.
TaskPanic(i, step) ==
    /\ Panic(<<step, i>>)
    /\ UNCHANGED <<crawlVars, inputVars, listVars, main_progress, spinners, stage,
                   files, gets, writes>>

\* Lines 115-118: the response came; its body is awaited.  reqwest::get
\* gives an error for a URL that does not parse.
GetOk(i) ==
    /\ MayPoll(i)
    /\ stage[i] = "get"
    /\ ParseOk(urls[i + 1])
    /\ stage' = [stage EXCEPT ![i] = "bytes"]
    /\ UNCHANGED <<pc, crawlVars, inputVars, listVars, main_progress, spinners,
                   files, gets, writes, failure>>

\* Line 117.
GetErr(i) ==
    /\ MayPoll(i)
    /\ stage[i] = "get"
    /\ TaskPanic(i, "Could not download url")

\* Lines 118-129: the body came; the URL is parsed, the path is composed
\* and File::create is awaited.
BytesOk(i) ==
    /\ MayPoll(i)
    /\ stage[i] = "bytes"
    /\ IF ParseOk(urls[i + 1])
       THEN /\ stage' = [stage EXCEPT ![i] = "create"]
            /\ UNCHANGED <<pc, failure>>
       ELSE /\ Panic(<<"Could not parse URL", i>>)
            /\ UNCHANGED stage
    /\ UNCHANGED <<crawlVars, inputVars, listVars, main_progress, spinners,
                   files, gets, writes>>

\* Lines 118-121.
BytesErr(i) ==
    /\ MayPoll(i)
    /\ stage[i] = "bytes"
    /\ TaskPanic(i, "Could not retrieve download result for url")

\* Lines 127-131: the file is there and empty; write_all is awaited.  A
\* path that ends in "/" names the directory and cannot be created.
CreateOk(i) ==
    /\ MayPoll(i)
    /\ stage[i] = "create"
    /\ FileName(urls[i + 1]) # <<>>
    /\ files' = WithFile(files, FileName(urls[i + 1]), <<>>)
    /\ stage' = [stage EXCEPT ![i] = "write"]
    /\ UNCHANGED <<pc, crawlVars, inputVars, listVars, main_progress, spinners,
                   gets, writes, failure>>

\* Line 129.
CreateErr(i) ==
    /\ MayPoll(i)
    /\ stage[i] = "create"
    /\ TaskPanic(i, "Could not open file for writing")

\* Lines 130-137: the bytes are written; the aggregate bar is advanced and
\* the task ends.
WriteOk(i) ==
    /\ MayPoll(i)
    /\ stage[i] = "write"
    /\ LET name == FileName(urls[i + 1])
       IN  files' = WithFile(files, name, Overlay(files[name], Body(urls[i + 1])))
    /\ writes' = [writes EXCEPT ![i] = @ + 1]
    /\ main_progress' = Inc(main_progress, 1)
    /\ stage' = [stage EXCEPT ![i] = "done"]
    /\ UNCHANGED <<pc, crawlVars, inputVars, listVars, spinners, gets, failure>>

\* Line 132.
WriteErr(i) ==
    /\ MayPoll(i)
    /\ stage[i] = "write"
    /\ TaskPanic(i, "Could not write file")

\* A variant of Collected: collect completes as soon as the stream is
\* exhausted, whatever the queue still holds.
CollectedEarly ==
    /\ pc = "fetches"
    /\ QueueHasRoom
    /\ StreamNext = Len(urls)
    /\ pc' = "finalize"
    /\ UNCHANGED <<crawlVars, mainVars>>

\* Lines 139-141: the stream is exhausted and no task is held: collect
\* completes.
Collected ==
    /\ pc = "fetches"
    /\ QueueHasRoom
    /\ StreamNext = Len(urls)
    /\ InQueue = {}
    /\ pc' = "finalize"
    /\ UNCHANGED <<crawlVars, mainVars>>

\* Lines 143-147: every spinner is cleared and the aggregate bar finished.
Finalize ==
    /\ pc = "finalize"
    /\ spinners' = [k \in DOMAIN spinners |-> [spinners[k] EXCEPT !.cleared = TRUE]]
    /\ main_progress' = [main_progress EXCEPT !.finished = TRUE]
    /\ pc' = "join"
    /\ UNCHANGED <<crawlVars, inputVars, listVars, stage, files, gets, writes, failure>>

\* Line 148: the drawing thread has ended; download_urls returns.
Join ==
    /\ pc = "join"
    /\ pc' = "downloaded"
    /\ UNCHANGED <<crawlVars, mainVars>>

\* Line 296.
Done ==
    /\ pc = "downloaded"
    /\ pc' = "done"
    /\ UNCHANGED <<crawlVars, mainVars>>

DownloadUrls ==
    \/ Setup
    \/ Launch
    \/ \E i \in Tasks : Start(i)
    \/ \E i \in Tasks : GetOk(i)
    \/ \E i \in Tasks : GetErr(i)
    \/ \E i \in Tasks : BytesOk(i)
    \/ \E i \in Tasks : BytesErr(i)
    \/ \E i \in Tasks : CreateOk(i)
    \/ \E i \in Tasks : CreateErr(i)
    \/ \E i \in Tasks : WriteOk(i)
    \/ \E i \in Tasks : WriteErr(i)
    \/ Collected
    \/ Finalize
    \/ Join

Next == GetUrls \/ WriteUrlList \/ DownloadUrls \/ Done

Spec == Init /\ [][Next]_vars

\* get_urls alone, entered (line 269) with any max_image_count; the
\* inputs it does not read are fixed.
InitCrawl == Init /\ max_requests = 1 /\ ~output_urls

\* get_urls under a scheduler that drives it: every await of timeline.older
\* comes back with Ok or Err, and the code between two awaits runs through.
SpecCrawl == InitCrawl /\ [][GetUrls]_vars /\ WF_vars(GetUrls)

\* ------------------------------------------------------------ download_urls alone

\* The URLs download_urls is tried on, and every list of at most MaxUrls
\* of them.
Urls == {UrlA, UrlB, UrlC, UrlBad, UrlDir}
UrlLists == UNION {[1..n -> Urls] : n \in 0..MaxUrls}

\* download_urls is entered (line 94) with any URL list and any width.
InitDownload ==
    /\ max_image_count = 0
    /\ max_requests \in 0..MaxRequests
    /\ output_urls = FALSE
    /\ pc = "setup"
    /\ timeline = None
    /\ feed = <<>>
    /\ ti = 1
    /\ mi = 1
    /\ urls \in UrlLists
    /\ tweets_retrieved = 0
    /\ spinner = Message("retrieved", 0, Len(urls))
    /\ fetched = <<>>
    /\ requests = <<>>
    /\ url_list = Absent
    /\ li = 1
    /\ main_progress = NoBar
    /\ spinners = <<>>
    /\ stage = <<>>
    /\ files = <<>>
    /\ gets = <<>>
    /\ writes = <<>>
    /\ failure = NoFailure

SpecDownload == InitDownload /\ [][DownloadUrls]_vars

\* The URLs whose GET, body, file creation and write can all succeed.
GoodUrls == {u \in Urls : ParseOk(u) /\ FileName(u) # <<>>}

\* download_urls is entered with URLs that can all be fetched and written.
InitDownloadOk == InitDownload /\ \A k \in 1..Len(urls) : urls[k] \in GoodUrls

\* The steps of download_urls when every awaited call gives Ok.
DownloadOk ==
    \/ Setup
    \/ Launch
    \/ \E i \in Tasks : Start(i)
    \/ \E i \in Tasks : GetOk(i)
    \/ \E i \in Tasks : BytesOk(i)
    \/ \E i \in Tasks : CreateOk(i)
    \/ \E i \in Tasks : WriteOk(i)
    \/ Collected
    \/ Finalize
    \/ Join

\* download_urls with every fetch and write succeeding, under a scheduler
\* that drives the main task: fetches.await polls buffer_unordered whenever
\* one of its futures is woken, and every awaited call comes back.
SpecDownloadOk == InitDownloadOk /\ [][DownloadOk]_vars /\ WF_vars(DownloadOk)

\* ------------------------------------------------------------ properties

\* The tasks that have begun their fetch and have not ended.
InFlight == {i \in Tasks : stage[i] \in {"get", "bytes", "create", "write"}}

\* download_urls has returned to main.
DownloadReturned == pc \in {"downloaded", "done"}

\* C1: for max_requests >= 1, in every reachable state of download_urls at
\* most max_requests tasks have begun their fetch and not yet ended.
C1_InFlightAtMostMaxRequests ==
    max_requests >= 1 => Cardinality(InFlight) <= max_requests

\* The cap binds: two tasks are in flight under max_requests = 2 while a
\* third URL waits in the stream.
C1_Witness ==
    /\ max_requests = 2
    /\ Cardinality(InFlight) = 2
    /\ \E i \in Tasks : stage[i] = "pending"

\* The URLs of the list name pairwise distinct files.
DistinctNames ==
    \A i, j \in 1..Len(urls) :
        i # j => LastSegment(UrlPath(urls[i])) # LastSegment(UrlPath(urls[j]))

\* C2: when download_urls returns for URLs with pairwise distinct final
\* path segments, every URL was fetched once and written once, its file
\* holds its body, no other file exists and the aggregate counter is M.
C2_AllWrittenOnce ==
    (DownloadReturned /\ DistinctNames) =>
        /\ max_requests >= 1
        /\ \A i \in Tasks : gets[i] = 1 /\ writes[i] = 1
        /\ Tasks = 0..(Len(urls) - 1)
        /\ DOMAIN files = {LastSegment(UrlPath(urls[k])) : k \in 1..Len(urls)}
        /\ \A k \in 1..Len(urls) : files[LastSegment(UrlPath(urls[k]))] = Body(urls[k])
        /\ main_progress.position = Len(urls)

\* download_urls has returned for two distinct files under max_requests = 2.
C2_Witness ==
    /\ DownloadReturned
    /\ max_requests = 2
    /\ urls = <<UrlB, UrlA>>
    /\ main_progress.position = 2

\* The tasks that have run to their end.
Completed == {i \in Tasks : stage[i] = "done"}

\* A download task has failed (a failure of main's own carries no index).
TaskFailed == Len(failure) = 2

\* C7: once a task of download_urls has failed at any step, the run is
\* aborted: the failing task has not advanced the aggregate counter, the
\* progress indicators are not finalized, download_urls has not returned,
\* and no step is taken afterwards (no task is launched or polled).
C7_FailureAborts ==
    /\ [](TaskFailed =>
            /\ pc = "panicked"
            /\ failure[2] \notin Completed
            /\ writes[failure[2]] = 0
            /\ main_progress.position = Cardinality(Completed)
            /\ ~main_progress.finished
            /\ \A k \in DOMAIN spinners : ~spinners[k].cleared)
    /\ [][~TaskFailed]_vars

\* A write has failed while another task was still in flight and a third
\* was not yet launched.
C7_Witness ==
    /\ TaskFailed
    /\ failure[1] = "Could not write file"
    /\ \E i \in Tasks : i # failure[2] /\ stage[i] = "bytes"
    /\ \E i \in Tasks : stage[i] = "pending"

\* C8: in every reachable state the aggregate counter is the number of
\* tasks that have run to their end, each of which has made its one GET
\* and its one write; no step lowers the counter or advances it by more
\* than one.
C8_CounterCountsCompleted ==
    /\ [](/\ main_progress.position = Cardinality(Completed)
          /\ \A i \in Tasks : writes[i] = (IF i \in Completed THEN 1 ELSE 0)
          /\ \A i \in Completed : gets[i] = 1)
    /\ [][/\ main_progress'.position >= main_progress.position
          /\ main_progress'.position <= main_progress.position + 1]_vars

\* Two tasks have completed, the later one alone, while a third is in
\* flight under max_requests = 2.
C8_Witness ==
    /\ max_requests = 2
    /\ main_progress.position = 2
    /\ Completed = {1, 2}
    /\ 0 \in InFlight

\* C9: a task is yielded by the stream, and begins its fetch, only after
\* every task of a lower index has; the order of completion is free.
C9_LaunchedInOrder ==
    \A i, j \in Tasks :
        j < i =>
            /\ stage[i] # "pending" => stage[j] # "pending"
            /\ stage[i] \notin {"pending", "created"} =>
                    stage[j] \notin {"pending", "created"}

\* The task of index 1 has completed while the task of index 0 is still
\* awaiting its response.
C9_Witness ==
    /\ 1 \in Completed
    /\ stage[0] = "get"

\* get_urls is inside its 'retrieval loop.
Crawling == pc \in {"retrieval", "older", "feed"}

\* The media_url values of the photo entries of a sequence of media entries
\* whose expanded_url has no "/video/", in order.
RECURSIVE PhotoUrls(_)
PhotoUrls(entries) ==
    IF entries = <<>> THEN <<>>
    ELSE LET e == Head(entries)
             keep == e.media_type = "Photo"
                     /\ \A i \in 1..(Len(e.expanded_url) - 6) :
                            SubSeq(e.expanded_url, i, i + 6)
                                # <<"/", "v", "i", "d", "e", "o", "/">>
         IN  (IF keep THEN <<e.media_url>> ELSE <<>>) \o PhotoUrls(Tail(entries))

\* Every media entry of a page, in tweet order and then entry order.
RECURSIVE PageEntries(_)
PageEntries(page) ==
    IF page = <<>> THEN <<>>
    ELSE (IF Head(page).some THEN Head(page).entries ELSE <<>>) \o PageEntries(Tail(page))

\* Every media entry of the pages fetched successfully, in page order.
RECURSIVE FetchedEntries(_)
FetchedEntries(results) ==
    IF results = <<>> THEN <<>>
    ELSE (IF Head(results).ok THEN PageEntries(Head(results).feed) ELSE <<>>)
         \o FetchedEntries(Tail(results))

\* The first n elements of a sequence (all of it when it is shorter).
Prefix(seq, n) == SubSeq(seq, 1, IF n < Len(seq) THEN n ELSE Len(seq))

\* C3: with max_image_count = K > 0 the collected sequence is never longer
\* than K, and once it holds K URLs get_urls is out of its loop: no entry,
\* tweet or page is processed any more.
C3_LimitStopsCrawl ==
    max_image_count > 0 =>
        /\ Len(urls) <= max_image_count
        /\ Len(urls) = max_image_count => ~Crawling

\* The limit was reached in the middle of a tweet: entries of the tweet,
\* tweets of the page and older pages were left.
C3_Witness ==
    /\ max_image_count = 1
    /\ Len(urls) = 1
    /\ pc = "finish"
    /\ feed = PageMulti
    /\ ti = 1 /\ mi = 1
    /\ tweets_retrieved = 0
    /\ timeline # None

\* A fetch has failed.
FetchFailed == \E k \in 1..Len(fetched) : ~fetched[k].ok

\* C4: when a page fetch fails, get_urls leaves its loop at once and
\* fetches no more; what it returns is the URLs of the pages fetched before
\* the failure, in order, and the failure raises nothing.
C4_FetchErrorStopsCrawl ==
    FetchFailed =>
        /\ \A k \in 1..Len(fetched) : fetched[k].ok <=> k < Len(fetched)
        /\ ~Crawling
        /\ urls = PhotoUrls(FetchedEntries(SubSeq(fetched, 1, Len(fetched) - 1)))
        /\ pc \in {"finish", "returned"} => failure = NoFailure

\* The second fetch failed after the first page gave URLs; get_urls has
\* returned them.
C4_Witness ==
    /\ pc = "returned"
    /\ Len(fetched) = 2
    /\ fetched[1].ok /\ fetched[1].feed = PageMulti
    /\ ~fetched[2].ok
    /\ urls = <<UrlB, UrlC>>

\* C5: what get_urls returns is the media_url of every photo entry without
\* "/video/" in its expanded_url, over the pages fetched successfully, in
\* page, tweet and entry order with repetitions kept, cut to its first
\* max_image_count elements when that is not 0.
C5_ReturnsEligibleUrls ==
    ~Crawling =>
        urls = IF max_image_count > 0
               THEN Prefix(PhotoUrls(FetchedEntries(fetched)), max_image_count)
               ELSE PhotoUrls(FetchedEntries(fetched))

\* Two pages with a video thumbnail, a video, a GIF and two photos whose
\* expanded_url nearly has "/video/" were crawled without a limit.
C5_Witness ==
    /\ pc = "returned"
    /\ max_image_count = 0
    /\ Len(fetched) = 2
    /\ fetched[1].feed = PageScenario
    /\ fetched[2].feed = PageMulti
    /\ urls = <<UrlA, UrlB, UrlC>>

\* C6: with max_image_count = 0 get_urls is out of its loop only after a
\* failed fetch, or after a page processed to its end whose min_id is
\* None; a page processed to its end whose min_id is present is followed
\* by the next fetch.
C6_UnboundedCrawlStops ==
    /\ [](max_image_count = 0 /\ ~Crawling =>
            \/ ~fetched[Len(fetched)].ok
            \/ /\ fetched[Len(fetched)].ok
               /\ fetched[Len(fetched)].min_id = None
               /\ timeline = None
               /\ feed = fetched[Len(fetched)].feed
               /\ ti > Len(feed))
    /\ [][max_image_count = 0 /\ pc = "feed" /\ ti > Len(feed) /\ timeline # None
            => pc' = "retrieval"]_vars
    /\ [][max_image_count = 0 /\ pc = "retrieval" => pc' = "older"]_vars

\* An unbounded crawl went on to a second page with URLs already collected
\* and stopped on an absent min_id.
C6_Witness ==
    /\ max_image_count = 0
    /\ pc = "returned"
    /\ Len(fetched) = 2
    /\ fetched[1].ok /\ fetched[1].min_id # None /\ fetched[1].feed = PageMulti
    /\ fetched[2].ok /\ fetched[2].min_id = None
    /\ Len(urls) >= 3

\* The lines of a text: the pieces its newlines end, and what follows the
\* last newline when that is not empty.
RECURSIVE SplitLines(_)
SplitLines(text) ==
    IF text = <<>> THEN <<>>
    ELSE LET k == FirstOf(text, {"\n"}, 1)
         IN  IF k > Len(text) THEN <<text>>
             ELSE <<SubSeq(text, 1, k - 1)>> \o SplitLines(SubSeq(text, k + 1, Len(text)))

\* C10: the URL list file is written only after get_urls has returned, and
\* what get_urls returned is not changed afterwards; once download_urls has
\* built its tasks, they are one per returned URL and, when the file was
\* asked for, it holds every URL, one per newline-ended line, in order.
C10_ListWrittenBeforeDownload ==
    /\ [](url_list.exists => ~Crawling /\ pc # "finish")
    /\ [](Tasks # {} \/ pc \in {"fetches", "finalize", "join", "downloaded", "done"} =>
            /\ ~Crawling /\ pc # "finish"
            /\ Tasks = 0..(Len(urls) - 1)
            /\ output_urls =>
                    /\ url_list.exists
                    /\ SplitLines(url_list.content) = urls
                    /\ urls # <<>> => url_list.content[Len(url_list.content)] = "\n")
    /\ [][~Crawling => urls' = urls]_vars

\* The first download task has begun its fetch with the two crawled URLs
\* on two lines of the list file.
C10_Witness ==
    /\ output_urls
    /\ pc = "fetches"
    /\ urls = <<UrlA, UrlB>>
    /\ stage[0] = "get"
    /\ Len(SplitLines(url_list.content)) = 2

\* The tweets of the pages fetched successfully, counted.
RECURSIVE TweetsOf(_)
TweetsOf(results) ==
    IF results = <<>> THEN 0
    ELSE (IF Head(results).ok THEN Len(Head(results).feed) ELSE 0) + TweetsOf(Tail(results))

\* The tweets whose media get_urls has looked at once it is out of its
\* loop: every tweet of the pages before the last one and, of the last
\* page, the tweets up to and including the one the loop was left in.
Examined ==
    TweetsOf(fetched) - Len(feed) + (IF ti <= Len(feed) THEN ti ELSE Len(feed))

\* C11: when the crawl has stopped, for whatever reason, tweets_retrieved
\* (and the tweet count of the final message) is the number of tweets
\* whose media the crawl has looked at.
C11_TweetCountCountsExamined ==
    ~Crawling =>
        /\ tweets_retrieved = Examined
        /\ spinner.kind = "retrieved" => spinner.tweets = Examined

\* The limit of one image was reached in the first tweet of the first
\* page: one URL was taken from it and the final message counts 0 tweets.
C11_Witness ==
    /\ pc = "returned"
    /\ max_image_count = 1
    /\ Len(fetched) = 1 /\ fetched[1].feed = PageMulti
    /\ urls = <<UrlB>>
    /\ Examined = 1
    /\ spinner = Message("retrieved", 0, 1)

\* get_urls has given its final message, "retrieved ...", and returned.
Retrieved == spinner.kind = "retrieved" /\ ~Crawling /\ pc # "finish"

\* C12: with a source that at last fails or gives a page without min_id,
\* get_urls gives its final message and returns, for every
\* max_image_count; with max_image_count = K > 0 the step that collects
\* the K-th URL leaves the loop whatever the cursor, and the return
\* follows.
C12_GetUrlsTerminates ==
    /\ <>Retrieved
    /\ (max_image_count > 0 /\ Len(urls) = max_image_count) ~> Retrieved
    /\ [][max_image_count > 0 /\ Len(urls) < max_image_count
             /\ Len(urls') = max_image_count => pc' = "finish"]_vars

\* get_urls has returned on the limit of two images while the source had
\* an older page to give.
C12_Witness ==
    /\ Retrieved
    /\ pc = "returned"
    /\ max_image_count = 2
    /\ Len(urls) = 2
    /\ timeline # None

\* C13: for max_requests >= 1 and any number of URLs (none included), when
\* every fetch and write succeeds download_urls returns at last with every
\* task run to its end; and the pool is work-conserving: while fewer than
\* max_requests tasks are in flight and a URL has not begun its fetch, the
\* step that brings the next task in (the stream's yield, or the first
\* poll of a yielded task) is enabled.
C13_DownloadTerminates ==
    /\ [](/\ pc = "fetches"
          /\ max_requests >= 1
          /\ Cardinality(InFlight) < max_requests
          /\ \E i \in Tasks : stage[i] \in {"pending", "created"}
          => ENABLED (Launch \/ \E i \in Tasks : Start(i)))
    /\ [](pc = "fetches" /\ max_requests >= 1 /\ Cardinality(InQueue) < max_requests
          /\ (\E i \in Tasks : stage[i] = "pending") => ENABLED Launch)
    /\ (max_requests >= 1 => <>(pc = "downloaded" /\ Completed = 0..(Len(urls) - 1)))

\* download_urls has returned after three downloads under max_requests = 2.
C13_Witness ==
    /\ pc = "downloaded"
    /\ max_requests = 2
    /\ Len(urls) = 3
    /\ Completed = {0, 1, 2}

\* C14: a spinner is cleared, and the aggregate bar finished, only when
\* every one of the M tasks has run to its end: none is pending, yielded
\* or in flight; the spinners are cleared together with the bar's finish;
\* and download_urls has returned only with all of them cleared and the
\* bar finished.
C14_FinalizedAfterAllTasks ==
    /\ ((\E k \in DOMAIN spinners : spinners[k].cleared) \/ main_progress.finished) =>
            /\ Completed = 0..(Len(urls) - 1)
            /\ InFlight = {}
            /\ main_progress.position = Len(urls)
            /\ main_progress.finished
            /\ \A k \in DOMAIN spinners : spinners[k].cleared
            /\ pc \in {"join", "downloaded", "done"}
    /\ DownloadReturned =>
            /\ main_progress.finished
            /\ Len(spinners) = max_requests
            /\ \A k \in DOMAIN spinners : spinners[k].cleared

\* Both spinners are cleared and the bar is finished after three tasks;
\* download_urls is about to return.
C14_Witness ==
    /\ pc = "join"
    /\ Len(urls) = 3
    /\ max_requests = 2
    /\ spinners[1].cleared /\ spinners[2].cleared
    /\ main_progress.finished

\* The tasks that have been polled: each has set its message and made its
\* GET.
Started == {i \in Tasks : stage[i] \notin {"pending", "created"}}

\* The task polled last among those whose index is k - 1 modulo
\* max_requests (tasks are first polled in index order), or -1.
LastStartedOn(k) ==
    LET on == {i \in Started : i % max_requests = k - 1}
    IN  IF on = {} THEN -1 ELSE CHOOSE i \in on : \A j \in on : j <= i

\* C15: once download_urls has built its tasks there are exactly
\* max_requests spinners; a task that has begun its fetch has
\* max_requests >= 1 and its spinner, of index i mod max_requests, exists;
\* and every spinner shows the "Downloading" message of the task started
\* last among those mapped to it, or nothing when there is none.
C15_SlotShowsLastStarted ==
    /\ (Tasks # {} \/ pc \in {"fetches", "finalize", "join", "downloaded"}) =>
            Len(spinners) = max_requests
    /\ \A i \in Started :
            /\ max_requests >= 1
            /\ (i % max_requests) + 1 \in DOMAIN spinners
            /\ gets[i] = 1
    /\ \A k \in DOMAIN spinners :
            spinners[k].message =
                IF LastStartedOn(k) = -1 THEN NoMessage
                ELSE Downloading(urls[LastStartedOn(k) + 1])

\* Under max_requests = 2 the task of index 2 has taken over the first
\* spinner from the task of index 0, which has ended; the second spinner
\* shows the task of index 1.
C15_Witness ==
    /\ max_requests = 2
    /\ urls = <<UrlA, UrlB, UrlDir>>
    /\ Tasks = {0, 1, 2}
    /\ stage[0] = "done"
    /\ stage[2] = "get"
    /\ spinners[1].message = Downloading(UrlDir)
    /\ spinners[2].message = Downloading(UrlB)

\* C16: a spinner is not a task's own. At most max_requests tasks are in
\* flight; two of them may be mapped to one spinner, and then a task
\* between them has run to its end (the later one was let in by it) and
\* the spinner shows the message of the task started last on it, not of
\* the earlier one.
C16_SlotsAreShared ==
    /\ Cardinality(InFlight) <= max_requests
    /\ \A i, j \in InFlight :
            (i < j /\ i % max_requests = j % max_requests) =>
                /\ \E m \in Completed : i < m /\ m < j
                /\ LastStartedOn((i % max_requests) + 1) >= j
                /\ spinners[(i % max_requests) + 1].message =
                        Downloading(urls[LastStartedOn((i % max_requests) + 1) + 1])

\* Under max_requests = 2 the tasks of index 0 and 2, both on the first
\* spinner, are in flight together: the task of index 1 has ended and let
\* the task of index 2 in, and the spinner shows the latter's URL.
C16_Witness ==
    /\ max_requests = 2
    /\ urls = <<UrlA, UrlB, UrlC>>
    /\ InFlight = {0, 2}
    /\ Completed = {1}
    /\ spinners[1].message = Downloading(UrlC)

\* C17: when download_urls has returned for URLs of which two have the
\* same final path segment, there are fewer files than URLs, the aggregate
\* counter is the number of URLs, and every file holds the body of one of
\* the URLs written to it (the one whose task wrote last).
C17_LastWriterSurvives ==
    (DownloadReturned /\ ~DistinctNames) =>
        /\ Cardinality(DOMAIN files) < Len(urls)
        /\ main_progress.position = Len(urls)
        /\ \A k \in 1..Len(urls) : FileName(urls[k]) \in DOMAIN files
        /\ \A n \in DOMAIN files :
                \E k \in 1..Len(urls) :
                    FileName(urls[k]) = n /\ files[n] = Body(urls[k])

\* UrlA and UrlC were both written to the file "a": the file holds the
\* one byte of UrlC's body followed by the second byte of UrlA's, which is
\* the body of neither.
C17_Witness ==
    /\ DownloadReturned
    /\ urls = <<UrlA, UrlC>>
    /\ FileName(UrlA) = FileName(UrlC)
    /\ DOMAIN files = {FileName(UrlA)}
    /\ main_progress.position = 2
    /\ files[FileName(UrlA)] = <<"c1", "a2">>

\* C18: get_urls is sequential. An older call is outstanding exactly while
\* get_urls awaits it, so at most one is; the first call is made on the
\* fresh timeline and every later one on the timeline the call before it
\* gave, which succeeded; the timeline and the page in hand are those of
\* the last successful call; and a call is made only with the page in
\* hand processed to its end, every tweet of every page counted.
C18_CrawlIsSequential ==
    /\ Len(requests) = Len(fetched) + (IF pc = "older" THEN 1 ELSE 0)
    /\ \A k \in 1..Len(requests) :
            IF k = 1 THEN requests[k] = None
            ELSE fetched[k - 1].ok /\ requests[k] = fetched[k - 1].min_id
    /\ (fetched # <<>> /\ fetched[Len(fetched)].ok) =>
            /\ timeline = fetched[Len(fetched)].min_id
            /\ feed = fetched[Len(fetched)].feed
    /\ pc \in {"retrieval", "older"} =>
            /\ ti > Len(feed)
            /\ tweets_retrieved = TweetsOf(fetched)

\* The second older call is outstanding, made on the timeline the first
\* call gave with a page of three tweets, all of them counted.
C18_Witness ==
    /\ pc = "older"
    /\ Len(requests) = 2
    /\ Len(fetched) = 1
    /\ fetched[1].feed = PageMulti
    /\ requests[2] = fetched[1].min_id
    /\ requests[2] # None
    /\ tweets_retrieved = Len(PageMulti)

\* The first call of timeline.older has failed.
FirstFetchFailed == fetched # <<>> /\ ~fetched[1].ok

\* main has passed the writing of the URL list file.
PastList == pc \in {"setup", "fetches", "finalize", "join", "downloaded", "done"}

\* The places of main from the end of get_urls' loop on, in program order.
MainOrder ==
    <<"finish", "returned", "create_list", "write_list", "setup", "fetches",
      "finalize", "join", "downloaded", "done", "panicked">>

\* How far along MainOrder a place is (0 for a place inside the loop).
PcRank(p) ==
    IF \E k \in DOMAIN MainOrder : MainOrder[k] = p
    THEN CHOOSE k \in DOMAIN MainOrder : MainOrder[k] = p
    ELSE 0

\* C19 (as the code has it): when the first fetch fails, get_urls fetches
\* no more and returns no URL with 0 tweets counted, and the failure
\* raises nothing; the list file, when asked for and opened, stays empty;
\* download_urls has no task and writes no file; the only failure that can
\* follow is that of opening the list file; with max_requests = 0
\* download_urls does not return; and with max_requests >= 1, unless
\* opening the list file fails, main always has its next step to take and
\* every step takes it further towards its last line.
C19_FirstFetchFailureRunsThrough ==
    /\ [](FirstFetchFailed =>
            /\ Len(fetched) = 1
            /\ ~Crawling
            /\ urls = <<>>
            /\ tweets_retrieved = 0
            /\ pc # "finish" => spinner = Message("retrieved", 0, 0)
            /\ url_list.content = <<>>
            /\ (PastList /\ output_urls) => url_list.exists
            /\ Tasks = {}
            /\ files = <<>>
            /\ main_progress.position = 0
            /\ failure # NoFailure =>
                    /\ output_urls
                    /\ failure = <<"Could not open file for writing">>
                    /\ ~url_list.exists
            /\ max_requests = 0 => ~DownloadReturned /\ ~main_progress.finished
            /\ (max_requests >= 1 /\ failure = NoFailure /\ pc # "done") => ENABLED Next)
    /\ [][FirstFetchFailed => PcRank(pc') > PcRank(pc)]_vars

\* After a failed first fetch main has reached its last line with the list
\* file made and empty and nothing downloaded.
C19_Witness ==
    /\ FirstFetchFailed
    /\ pc = "done"
    /\ output_urls
    /\ url_list = [exists |-> TRUE, content |-> <<>>]
    /\ main_progress.finished
    /\ files = <<>>

\* C19 (as stated): when the first fetch fails the run goes on to main's
\* last line: no failure is reported and, short of the last line, main
\* has its next step to take.
C19_FirstFetchFailureCompletes ==
    FirstFetchFailed =>
        /\ failure = NoFailure
        /\ pc # "done" => ENABLED Next

====
